---- MODULE Spec2Model ----
(***************************************************************************)
(* A model of the sparse Merkle tree of package multilevelmktree           *)
(* (sparse.go): NewSparseMerkleTree, Insert / insertIntoNode,              *)
(* GenerateMerklePath and VerifyMerklePath; and of getMerkleRoots          *)
(* (main.go), which builds dense trees of package merkletree on            *)
(* goroutines (specification SpecRoots).                                   *)
(*                                                                         *)
(* Representation.                                                         *)
(*  - A *big.Int is a string.  poseidon.Hash is modelled as a free         *)
(*    (injective, collision-free) constructor on strings: the hash of      *)
(*    [a] is "h(a)" and the hash of [a, b] is "h(a,b)".                    *)
(*  - A *MerkleNode is a sequence of length 0 (nil) or 1 (a pointer to the *)
(*    node record it holds).  The code never shares a node between two     *)
(*    parents, so the nested value is the heap reachable from the pointer. *)
(*  - A Go string key is a sequence of one-character strings.              *)
(***************************************************************************)
EXTENDS Integers, Sequences, FiniteSets, TLC

VARIABLES
    smt,        \* the SparseMerkleTree: [Root, Depth, Leaves]
    depthArg,   \* the argument NewSparseMerkleTree was called with
    panicked,   \* a run-time panic has ended the program
    inserted,   \* history: the keys that were passed to Insert
    op,         \* the last operation: "new", "insert", "path" or "verify"
    key,        \* the key argument of the last Insert / GenerateMerklePath
    value,      \* the value argument of the last Insert
    path,       \* the path returned by the last GenerateMerklePath
    err,        \* whether the last GenerateMerklePath returned an error
    tamper,     \* how the caller changed the path before verifying it
    valid,      \* the result of the last VerifyMerklePath
    mr          \* the call of getMerkleRoots (main.go) and its goroutines

\* the variables of the sparse Merkle tree and of its caller
sparseVars ==
    <<smt, depthArg, panicked, inserted, op, key, value, path, err, tamper, valid>>

vars == <<sparseVars, mr>>

-----------------------------------------------------------------------------
(* Bounds and input sets *)

MaxDepth == 2

\* the model stops inserting new keys once the tree records this many
MaxKeys == 4

\* getMerkleRoots is called with hLevel, lLevel and preImage up to these
MaxHLevel == 2

MaxLLevel == 2

MaxPreImage == 1

\* characters a caller may put in a key: the two bits, another digit, a letter
KeyChars == {"0", "1", "2", "a"}

Bits == {"0", "1"}

\* keys of exactly n characters over the character set cs
KeysOfLen(cs, n) == [1..n -> cs]

\* the well-formed keys of a tree of depth d
BitKeys(d) == KeysOfLen(Bits, d)

\* keys a caller may ask a path for: every well-formed key, and the all-0 and
\* all-1 strings of every length up to d + 1
ProbeKeys(d) ==
    BitKeys(d) \cup {[i \in 1..n |-> b] : n \in 0..(d + 1), b \in Bits}

\* keys a caller may pass to Insert, well-formed or not: bit strings that are
\* too short or too long, and keys of the right length with other characters
AnyKeys(d) ==
    UNION {KeysOfLen(Bits, n) : n \in 0..(d + 1)} \cup KeysOfLen(KeyChars, d)

WellFormed(k, d) == Len(k) = d /\ \A i \in 1..Len(k) : k[i] \in Bits

-----------------------------------------------------------------------------
(* poseidon.Hash, as a free constructor *)

Hash1(a) == "h(" \o a \o ")"

Hash2(a, b) == "h(" \o a \o "," \o b \o ")"

zeroLeaf == Hash1("0")

\* values a caller may insert: a small integer, and a field element that
\* happens to equal the commitment of an absent leaf
Values == {"1", zeroLeaf}

RECURSIVE emptyLoop(_, _, _)
emptyLoop(h, i, depth) ==
    IF i < depth THEN emptyLoop(Hash2(h, h), i + 1, depth) ELSE h

getHashEmptyForDepth(depth) == emptyLoop(zeroLeaf, 0, depth)

-----------------------------------------------------------------------------
(* Nodes and pointers *)

Nil == <<>>

Ptr(node) == <<node>>

MerkleNode(data, left, right) == [Data |-> data, Left |-> left, Right |-> right]

getLeftChild(node, depth) ==
    IF node.Left = Nil
    THEN Ptr(MerkleNode(getHashEmptyForDepth(depth), Nil, Nil))
    ELSE node.Left

getRightChild(node, depth) ==
    IF node.Right = Nil
    THEN Ptr(MerkleNode(getHashEmptyForDepth(depth), Nil, Nil))
    ELSE node.Right

\* a hashChildren whose fallback is the empty hash of the node's own height
hashChildrenOwnHeight(left, right, depth) ==
    LET leftData  == IF left # Nil THEN left[1].Data
                     ELSE getHashEmptyForDepth(depth)
        rightData == IF right # Nil THEN right[1].Data
                     ELSE getHashEmptyForDepth(depth)
    IN  Hash2(leftData, rightData)

hashChildren(left, right, depth) ==
    LET leftData  == IF left # Nil THEN left[1].Data
                     ELSE getHashEmptyForDepth(depth - 1)
        rightData == IF right # Nil THEN right[1].Data
                     ELSE getHashEmptyForDepth(depth - 1)
    IN  Hash2(leftData, rightData)

\* strconv.Atoi on one character, its error dropped: 0 for a non-digit
Atoi(c) == IF c = "1" THEN 1 ELSE IF c = "2" THEN 2 ELSE 0

\* a getPathBit that counts the key's characters from its end
getPathBitFromEnd(k, depth) ==
    IF Len(k) = 0 THEN 0 ELSE Atoi(k[Len(k) - depth])

\* key[depth : depth+1] panics (slice bounds out of range) past the key's end
getPathBitPanics(k, depth) == Len(k) # 0 /\ depth + 1 > Len(k)

getPathBit(k, depth) ==
    IF Len(k) = 0 THEN 0 ELSE Atoi(k[depth + 1])

-----------------------------------------------------------------------------
(* Construction and insertion *)

\* a constructor whose root commits to an empty leaf whatever the depth
NewSparseMerkleTreeLeafRoot(depth) ==
    [Root   |-> Ptr(MerkleNode(zeroLeaf, Nil, Nil)),
     Depth  |-> depth,
     Leaves |-> <<>>]

NewSparseMerkleTree(depth) ==
    [Root   |-> Ptr(MerkleNode(getHashEmptyForDepth(depth), Nil, Nil)),
     Depth  |-> depth,
     Leaves |-> <<>>]

\* an insertIntoNode that does not recompute node.Data on the way back up
RECURSIVE insertIntoNodeNoRehash(_, _, _, _, _)
insertIntoNodeNoRehash(node, k, v, depth, maxDepth) ==
    LET n0 == IF node = Nil
              THEN MerkleNode(getHashEmptyForDepth(maxDepth - depth), Nil, Nil)
              ELSE node[1]
    IN  IF depth = maxDepth
        THEN Ptr(MerkleNode(v, Nil, Nil))
        ELSE IF getPathBit(k, depth) = 0
        THEN Ptr([n0 EXCEPT !.Left =
                    insertIntoNodeNoRehash(getLeftChild(n0, depth + 1),
                                           k, v, depth + 1, maxDepth)])
        ELSE Ptr([n0 EXCEPT !.Right =
                    insertIntoNodeNoRehash(getRightChild(n0, depth + 1),
                                           k, v, depth + 1, maxDepth)])

\* an insertIntoNode that also stores the child it does not descend into
RECURSIVE insertIntoNodeBothChildren(_, _, _, _, _)
insertIntoNodeBothChildren(node, k, v, depth, maxDepth) ==
    LET n0 == IF node = Nil
              THEN MerkleNode(getHashEmptyForDepth(maxDepth - depth), Nil, Nil)
              ELSE node[1]
    IN  IF depth = maxDepth
        THEN Ptr(MerkleNode(v, Nil, Nil))
        ELSE LET pathBit == getPathBit(k, depth)
                 n1 == IF pathBit = 0
                       THEN [n0 EXCEPT
                               !.Left = insertIntoNodeBothChildren(
                                            getLeftChild(n0, depth + 1),
                                            k, v, depth + 1, maxDepth),
                               !.Right = getRightChild(n0, depth + 1)]
                       ELSE [n0 EXCEPT
                               !.Right = insertIntoNodeBothChildren(
                                            getRightChild(n0, depth + 1),
                                            k, v, depth + 1, maxDepth),
                               !.Left = getLeftChild(n0, depth + 1)]
             IN  Ptr([n1 EXCEPT !.Data =
                        hashChildren(n1.Left, n1.Right, maxDepth - depth)])

RECURSIVE insertIntoNode(_, _, _, _, _)
insertIntoNode(node, k, v, depth, maxDepth) ==
    LET n0 == IF node = Nil
              THEN MerkleNode(getHashEmptyForDepth(maxDepth - depth), Nil, Nil)
              ELSE node[1]
    IN  IF depth = maxDepth
        THEN Ptr(MerkleNode(v, Nil, Nil))
        ELSE LET pathBit == getPathBit(k, depth)
                 n1 == IF pathBit = 0
                       THEN [n0 EXCEPT !.Left =
                               insertIntoNode(getLeftChild(n0, depth + 1),
                                              k, v, depth + 1, maxDepth)]
                       ELSE [n0 EXCEPT !.Right =
                               insertIntoNode(getRightChild(n0, depth + 1),
                                              k, v, depth + 1, maxDepth)]
             IN  Ptr([n1 EXCEPT !.Data =
                        hashChildren(n1.Left, n1.Right, maxDepth - depth)])

\* smt.Leaves[key] = value
LeavesPut(leaves, k, v) ==
    [x \in (DOMAIN leaves) \cup {k} |-> IF x = k THEN v ELSE leaves[x]]

\* the recursion reads key[depth] for depth = 0 .. Depth-1 before it writes
\* any node, so a key that is too short panics with the tree untouched
InsertPanics(t, k) == \E d \in 0..(t.Depth - 1) : getPathBitPanics(k, d)

\* an Insert that records the value of a key it already holds but returns
\* before it walks the tree again
InsertSkipExisting(t, k, v) ==
    IF InsertPanics(t, k) \/ k \in DOMAIN t.Leaves
    THEN [t EXCEPT !.Leaves = LeavesPut(t.Leaves, k, v)]
    ELSE [t EXCEPT !.Leaves = LeavesPut(t.Leaves, k, v),
                   !.Root   = insertIntoNode(t.Root, k, v, 0, t.Depth)]

Insert(t, k, v) ==
    IF InsertPanics(t, k)
    THEN [t EXCEPT !.Leaves = LeavesPut(t.Leaves, k, v)]
    ELSE [t EXCEPT !.Leaves = LeavesPut(t.Leaves, k, v),
                   !.Root   = insertIntoNode(t.Root, k, v, 0, t.Depth)]

-----------------------------------------------------------------------------
(* Path generation and verification *)

\* the node `current` points to when the loop reaches iteration `depth`
RECURSIVE currentAt(_, _, _)
currentAt(t, k, depth) ==
    IF depth = 0
    THEN t.Root[1]
    ELSE LET current == currentAt(t, k, depth - 1)
         IN  IF getPathBit(k, depth - 1) = 0
             THEN getLeftChild(current, depth)[1]
             ELSE getRightChild(current, depth)[1]

\* path[depth] as the loop body assigns it
pathItemAt(t, k, depth) ==
    LET current == currentAt(t, k, depth)
    IN  IF getPathBit(k, depth) = 0
        THEN [SiblingHash |-> getRightChild(current, depth + 1)[1].Data,
              IsRight     |-> TRUE]
        ELSE [SiblingHash |-> getLeftChild(current, depth + 1)[1].Data,
              IsRight     |-> FALSE]

ReversePath(p) == [i \in 1..Len(p) |-> p[Len(p) + 1 - i]]

\* the walk reads key[depth] for depth = 0 .. Depth-1
GenerateMerklePathPanics(t, k) ==
    /\ k \in DOMAIN t.Leaves
    /\ \E d \in 0..(t.Depth - 1) : getPathBitPanics(k, d)

\* a GenerateMerklePath that looks the key up by its length alone and walks
\* the (virtual) tree for a key of the right length that was never inserted
GenerateMerklePathByLength(t, k) ==
    IF k \notin DOMAIN t.Leaves /\ Len(k) # t.Depth
    THEN [path |-> <<>>, err |-> TRUE]
    ELSE [path |-> ReversePath([d \in 1..t.Depth |-> pathItemAt(t, k, d - 1)]),
          err  |-> FALSE]

GenerateMerklePath(t, k) ==
    IF k \notin DOMAIN t.Leaves
    THEN [path |-> <<>>, err |-> TRUE]
    ELSE [path |-> ReversePath([d \in 1..t.Depth |-> pathItemAt(t, k, d - 1)]),
          err  |-> FALSE]

RECURSIVE verifyLoop(_, _, _)
verifyLoop(currentHash, p, i) ==
    IF i > Len(p)
    THEN currentHash
    ELSE LET siblingHash == p[i].SiblingHash
         IN  verifyLoop(IF p[i].IsRight
                        THEN Hash2(currentHash, siblingHash)
                        ELSE Hash2(siblingHash, currentHash),
                        p, i + 1)

\* a VerifyMerklePath that hashes [current, sibling] whatever the side flag
RECURSIVE verifyLoopNoSide(_, _, _)
verifyLoopNoSide(currentHash, p, i) ==
    IF i > Len(p)
    THEN currentHash
    ELSE verifyLoopNoSide(Hash2(currentHash, p[i].SiblingHash), p, i + 1)

VerifyMerklePathNoSide(leafHash, p, expectedRoot) ==
    verifyLoopNoSide(leafHash, p, 1) = expectedRoot

VerifyMerklePath(leafHash, p, expectedRoot) ==
    verifyLoop(leafHash, p, 1) = expectedRoot

-----------------------------------------------------------------------------
(* Actions *)

NoTamper == [kind |-> "none", index |-> 0, hash |-> ""]

\* getMerkleRoots is not running
NoRootsCall == [pc |-> "idle"]

Init ==
    /\ depthArg \in 0..MaxDepth
    /\ smt = NewSparseMerkleTree(depthArg)
    /\ panicked = FALSE
    /\ inserted = {}
    /\ op = "new"
    /\ key = <<>>
    /\ value = ""
    /\ path = <<>>
    /\ err = FALSE
    /\ tamper = NoTamper
    /\ valid = FALSE
    /\ mr = NoRootsCall

InsertCall(k, v) ==
    /\ ~panicked
    /\ k \in DOMAIN smt.Leaves \/ Cardinality(DOMAIN smt.Leaves) < MaxKeys
    /\ smt' = Insert(smt, k, v)
    /\ panicked' = InsertPanics(smt, k)
    /\ inserted' = inserted \cup {k}
    /\ op' = "insert"
    /\ key' = k
    /\ value' = v
    /\ path' = <<>>
    /\ err' = FALSE
    /\ tamper' = NoTamper
    /\ valid' = FALSE
    /\ UNCHANGED <<depthArg, mr>>

\* Insert called as its contract asks: a bit string of length Depth
InsertStep == \E k \in BitKeys(smt.Depth) : \E v \in Values : InsertCall(k, v)

\* the program calling Insert with a key its contract excludes; the model
\* follows one such call per run (no malformed key was inserted before it)
InsertMalformed ==
    \E k \in AnyKeys(smt.Depth) : \E v \in Values :
        /\ ~WellFormed(k, smt.Depth)
        /\ \A x \in inserted : WellFormed(x, smt.Depth)
        /\ InsertCall(k, v)

GeneratePathStep ==
    \E k \in ProbeKeys(smt.Depth) \cup inserted :
        /\ ~panicked
        /\ ~GenerateMerklePathPanics(smt, k)
        /\ LET r == GenerateMerklePath(smt, k)
           IN  path' = r.path /\ err' = r.err
        /\ op' = "path"
        /\ key' = k
        /\ value' = ""
        /\ tamper' = NoTamper
        /\ valid' = FALSE
        /\ UNCHANGED <<smt, depthArg, panicked, inserted, mr>>

\* hashes a caller may put in place of an item's SiblingHash
TamperHashes == Values

\* the changes of exactly one item of path p
Tampers(p) ==
    {[kind |-> "flag", index |-> i, hash |-> ""] : i \in 1..Len(p)}
    \cup {[kind |-> "sibling", index |-> i, hash |-> h] :
            i \in 1..Len(p), h \in TamperHashes}

Tampered(p, t) ==
    IF t.kind = "flag"
    THEN [p EXCEPT ![t.index].IsRight = ~p[t.index].IsRight]
    ELSE IF t.kind = "sibling"
    THEN [p EXCEPT ![t.index].SiblingHash = t.hash]
    ELSE p

\* the caller verifies the path it was just given, as returned or with one
\* item changed, for the recorded value against the current root
VerifyStep ==
    \E t \in {NoTamper} \cup Tampers(path) :
        /\ ~panicked
        /\ op = "path"
        /\ ~err
        /\ t.kind = "sibling" => t.hash # path[t.index].SiblingHash
        /\ valid' = VerifyMerklePath(smt.Leaves[key], Tampered(path, t),
                                     smt.Root[1].Data)
        /\ tamper' = t
        /\ op' = "verify"
        /\ UNCHANGED <<smt, depthArg, panicked, inserted, key, value, path,
                       err, mr>>

Next == InsertStep \/ GeneratePathStep \/ VerifyStep

Spec == Init /\ [][Next]_vars

NextAnyKey == InsertStep \/ InsertMalformed \/ GeneratePathStep \/ VerifyStep

\* callers that may pass any key to Insert (at most one malformed one)
SpecAnyKey == Init /\ [][NextAnyKey]_vars

-----------------------------------------------------------------------------
(* The dense tree of package merkletree and getMerkleRoots of main.go *)

\* int(math.Pow(2, float64(n))) for n >= 0
RECURSIVE Pow2(_)
Pow2(n) == IF n <= 0 THEN 1 ELSE 2 * Pow2(n - 1)

\* int(math.Log2(float64(n))) for n >= 1
RECURSIVE Log2(_)
Log2(n) == IF n <= 1 THEN 0 ELSE 1 + Log2(n \div 2)

NewMerkleNode(left, right, data) ==
    IF left = Nil /\ right = Nil
    THEN MerkleNode(data, Nil, Nil)
    ELSE MerkleNode(Hash2(left[1].Data, right[1].Data), left, right)

\* one pass of the outer loop: the next level from the pairs of this one
newLevel(nodes) ==
    [j \in 1..(Len(nodes) \div 2) |->
        NewMerkleNode(Ptr(nodes[2 * j - 1]), Ptr(nodes[2 * j]), "")]

RECURSIVE levelLoop(_, _, _)
levelLoop(nodes, i, depth) ==
    IF i < depth THEN levelLoop(newLevel(nodes), i + 1, depth) ELSE nodes

NewMerkleTreeWithLeaves(leaves) ==
    LET nodes == [j \in 1..Len(leaves) |-> NewMerkleNode(Nil, Nil, leaves[j])]
        depth == Log2(Len(leaves))
    IN  [Root |-> Ptr(levelLoop(nodes, 0, depth)[1])]

\* big.NewInt(int64(i)) printed in decimal stands for the integer
NewDeterministicMerkleTree(depth, startIndex) ==
    LET numLeaves == Pow2(depth)
    IN  NewMerkleTreeWithLeaves(
            [j \in 1..numLeaves |-> Hash1(ToString((j - 1) + startIndex))])

\* wg.Wait() returns at once when the counter is 0, whatever ran
WaitReturnsAlways(counter) == TRUE

\* wg.Wait() returns when the WaitGroup's counter is 0
WaitReturns(counter) == counter = 0

\* the state of getMerkleRoots after wg.Add(n), before the first go statement
RootsCall(hLevel, lLevel, preImage) ==
    LET n == Pow2(hLevel)
    IN  [pc        |-> "loop",
         hLevel    |-> hLevel,
         lLevel    |-> lLevel,
         preImage  |-> preImage,
         n         |-> n,
         increment |-> Pow2(lLevel),
         i         |-> 0,
         wg        |-> n,
         bar       |-> 0,
         branches  |-> [j \in 0..(n - 1) |-> ""],
         workers   |-> [g \in 0..(n - 1) |-> [pc |-> "none", i |-> 0]],
         writers   |-> [j \in 0..(n - 1) |-> {}],
         result    |-> <<>>]

InitRoots ==
    /\ depthArg = 0
    /\ smt = NewSparseMerkleTree(depthArg)
    /\ panicked = FALSE
    /\ inserted = {}
    /\ op = "new"
    /\ key = <<>>
    /\ value = ""
    /\ path = <<>>
    /\ err = FALSE
    /\ tamper = NoTamper
    /\ valid = FALSE
    /\ \E h \in 0..MaxHLevel : \E l \in 0..MaxLLevel : \E pre \in 0..MaxPreImage :
           mr = RootsCall(h, l, pre)

\* go func(i int) { ... }(i); i++ : the goroutine gets a copy of i
Spawn ==
    /\ mr.pc = "loop"
    /\ mr.i < mr.n
    /\ mr' = [mr EXCEPT !.workers[mr.i] = [pc |-> "run", i |-> mr.i],
                        !.i = mr.i + 1]
    /\ UNCHANGED sparseVars

\* goroutine g builds its tree and stores the root: branches[i] = ...
WorkerWrite(g) ==
    /\ mr.pc = "loop"
    /\ mr.workers[g].pc = "run"
    /\ LET i == mr.workers[g].i
           merkleTree == NewDeterministicMerkleTree(
                             mr.lLevel, (i + mr.preImage) * mr.increment)
       IN  mr' = [mr EXCEPT !.branches[i] = merkleTree.Root[1].Data,
                            !.writers[i] = mr.writers[i] \cup {g},
                            !.workers[g].pc = "written"]
    /\ UNCHANGED sparseVars

\* goroutine g: bar.Add(1), then the deferred wg.Done()
WorkerFinish(g) ==
    /\ mr.pc = "loop"
    /\ mr.workers[g].pc = "written"
    /\ mr' = [mr EXCEPT !.bar = mr.bar + 1,
                        !.wg = mr.wg - 1,
                        !.workers[g].pc = "done"]
    /\ UNCHANGED sparseVars

\* the loop has ended, wg.Wait() returns and getMerkleRoots returns branches
WaitAndReturn ==
    /\ mr.pc = "loop"
    /\ mr.i = mr.n
    /\ WaitReturns(mr.wg)
    /\ mr' = [mr EXCEPT !.pc = "returned", !.result = mr.branches]
    /\ UNCHANGED sparseVars

WorkerWriteStep == \E g \in DOMAIN mr.workers : WorkerWrite(g)

WorkerFinishStep == \E g \in DOMAIN mr.workers : WorkerFinish(g)

NextRoots == Spawn \/ WorkerWriteStep \/ WorkerFinishStep \/ WaitAndReturn

SpecRoots == InitRoots /\ [][NextRoots]_vars

-----------------------------------------------------------------------------
(* Vocabulary of the properties *)

\* the empty-subtree hash as the specification defines it:
\* EmptyHash(0) = H([0]), EmptyHash(d) = H([EmptyHash(d-1), EmptyHash(d-1)])
RECURSIVE EmptyHash(_)
EmptyHash(d) ==
    IF d = 0 THEN Hash1("0") ELSE Hash2(EmptyHash(d - 1), EmptyHash(d - 1))

RootData == smt.Root[1].Data

\* the pointer reached from ptr by the first n bits of k (0 = Left,
\* 1 = Right); Nil as soon as the walk leaves the materialized nodes
RECURSIVE NodeAt(_, _, _)
NodeAt(ptr, k, n) ==
    IF n = 0
    THEN ptr
    ELSE LET p == NodeAt(ptr, k, n - 1)
         IN  IF p = Nil THEN Nil
             ELSE IF k[n] = "0" THEN p[1].Left ELSE p[1].Right

\* the pointer to the sibling of the k-path node at depth n + 1
SiblingAt(ptr, k, n) ==
    LET p == NodeAt(ptr, k, n)
    IN  IF p = Nil THEN Nil
        ELSE IF k[n + 1] = "0" THEN p[1].Right ELSE p[1].Left

\* the commitment of a child of a node of height h
Commitment(ptr, h) == IF ptr # Nil THEN ptr[1].Data ELSE EmptyHash(h - 1)

\* the running hash of a verification of p after its first n items
RECURSIVE RunningHash(_, _, _)
RunningHash(leaf, p, n) ==
    IF n = 0
    THEN leaf
    ELSE LET c == RunningHash(leaf, p, n - 1)
         IN  IF p[n].IsRight
             THEN Hash2(c, p[n].SiblingHash)
             ELSE Hash2(p[n].SiblingHash, c)

-----------------------------------------------------------------------------
(* C1: round trip.  In a tree of depth >= 1, the path GenerateMerklePath     *)
(* returns for an inserted key verifies, unchanged, for the key's recorded   *)
(* value against the current root.                                           *)
C1_RoundTrip ==
    (op = "verify" /\ tamper.kind = "none" /\ smt.Depth >= 1) => valid

(* C2: GenerateMerklePath returns the "not found" error, and no path,        *)
(* exactly when the key was never passed to Insert (a key of another length  *)
(* included); for an inserted key it returns no error and Depth items.       *)
C2_NotFoundIffNeverInserted ==
    op = "path" =>
        /\ err <=> key \notin inserted
        /\ err => path = <<>>
        /\ ~err => Len(path) = smt.Depth

C2_Witness ==
    /\ op = "path"
    /\ err
    /\ Len(key) # smt.Depth
    /\ inserted # {}

(* C3: for every key of Leaves, the walk from Root by the key's bits passes  *)
(* only materialized nodes and ends at a leaf whose Data is Leaves[key].     *)
C3_LeavesMatchTree ==
    \A k \in DOMAIN smt.Leaves :
        /\ \A n \in 0..smt.Depth : NodeAt(smt.Root, k, n) # Nil
        /\ LET leaf == NodeAt(smt.Root, k, smt.Depth)[1]
           IN  /\ leaf.Left = Nil
               /\ leaf.Right = Nil
               /\ leaf.Data = smt.Leaves[k]

C3_Witness ==
    /\ op = "insert"
    /\ smt.Depth = MaxDepth
    /\ Cardinality(DOMAIN smt.Leaves) >= 3
    /\ \E k \in DOMAIN smt.Leaves : smt.Leaves[k] # value

(* C4: NewSparseMerkleTree(D) returns a tree with a non-nil Root whose Data  *)
(* is EmptyHash(D) and which has no children, with Depth D and no Leaves.    *)
C4_NewTree ==
    op = "new" =>
        /\ smt.Root # Nil
        /\ smt.Root[1].Data = EmptyHash(depthArg)
        /\ smt.Root[1].Left = Nil
        /\ smt.Root[1].Right = Nil
        /\ smt.Depth = depthArg
        /\ DOMAIN smt.Leaves = {}

C4_Witness == op = "new" /\ depthArg = MaxDepth /\ depthArg >= 2

\* the commitment at key k's leaf position before an insertion
LeafCommitment(t, k) ==
    IF k \in DOMAIN t.Leaves THEN t.Leaves[k] ELSE EmptyHash(0)

OthersKept(before, after, k) ==
    \A k2 \in (DOMAIN before) \ {k} :
        k2 \in DOMAIN after /\ after[k2] = before[k2]

(* C5, as claimed: Insert(k1, v) on a tree that holds another key k2 leaves  *)
(* Leaves[k2] unchanged and makes the root differ from the root before.      *)
C5_InsertChangesRoot ==
    [][(op' = "insert" /\ (DOMAIN smt.Leaves) \ {key'} # {}) =>
          /\ OthersKept(smt.Leaves, smt'.Leaves, key')
          /\ smt'.Root[1].Data # smt.Root[1].Data]_vars

(* C5, amended: Insert(k1, v) on a tree that holds another key k2 leaves     *)
(* Leaves[k2] unchanged, and the root differs from the root before exactly   *)
(* when v differs from the commitment at k1's leaf position before the call  *)
(* (its recorded value, or EmptyHash(0) when k1 was not inserted yet).       *)
C5_InsertChangesRootIffLeafChanges ==
    [][(op' = "insert" /\ (DOMAIN smt.Leaves) \ {key'} # {}) =>
          /\ OthersKept(smt.Leaves, smt'.Leaves, key')
          /\ (smt'.Root[1].Data # smt.Root[1].Data)
                <=> (value' # LeafCommitment(smt, key'))]_vars

C5_Witness ==
    /\ op = "insert"
    /\ (DOMAIN smt.Leaves) \ {key} # {}
    /\ smt.Leaves[key] = value
    /\ smt.Depth >= 1

\* the path of the last GenerateMerklePath verifies as it was returned
PathVerifies == VerifyMerklePath(smt.Leaves[key], path, RootData)

(* C6, as claimed: every change of one item's SiblingHash, and every flip of *)
(* one item's IsRight, of a path that verifies makes verification fail.      *)
C6_TamperDetected ==
    (op = "verify" /\ tamper.kind # "none" /\ PathVerifies) => ~valid

(* C6, amended: every change of one item's SiblingHash of a path that        *)
(* verifies makes verification fail, and so does every flip of one item's    *)
(* IsRight unless that item's SiblingHash equals the running hash it is      *)
(* combined with (then both orders hash the same pair).                      *)
C6_TamperDetectedUnlessEqualSibling ==
    (/\ op = "verify"
     /\ tamper.kind # "none"
     /\ PathVerifies
     /\ tamper.kind = "flag" =>
            path[tamper.index].SiblingHash
                # RunningHash(smt.Leaves[key], path, tamper.index - 1))
    => ~valid

C6_Witness ==
    /\ op = "verify"
    /\ tamper.kind = "flag"
    /\ PathVerifies
    /\ smt.Depth = MaxDepth
    /\ ~valid

(* C7: Insert with a malformed key (wrong length, or a character other than  *)
(* '0' and '1') fails and leaves Root, every node and Leaves unchanged.      *)
C7_MalformedKeyRejected ==
    [][(op' = "insert" /\ ~WellFormed(key', smt.Depth)) =>
          (panicked' /\ smt' = smt)]_vars

(* C8: item i of the path for key k (0 = next to the leaf) carries the       *)
(* commitment of the sibling of the k-path node at that level: the sibling's *)
(* Data when it is materialized, EmptyHash(i) when it is not; IsRight is     *)
(* true exactly when k's bit at that level is 0.                             *)
C8_PathItems ==
    (op = "path" /\ ~err /\ WellFormed(key, smt.Depth)) =>
        \A i \in 0..(smt.Depth - 1) :
            LET n   == smt.Depth - 1 - i
                sib == SiblingAt(smt.Root, key, n)
            IN  /\ path[i + 1].SiblingHash = Commitment(sib, i + 1)
                /\ path[i + 1].IsRight = (key[n + 1] = "0")

\* every materialized node of height h >= 1 below ptr commits to its children
RECURSIVE NodesCommitted(_, _)
NodesCommitted(ptr, h) ==
    \/ ptr = Nil
    \/ h = 0
    \/ /\ ptr[1].Data = Hash2(Commitment(ptr[1].Left, h), Commitment(ptr[1].Right, h))
       /\ NodesCommitted(ptr[1].Left, h - 1)
       /\ NodesCommitted(ptr[1].Right, h - 1)

(* C9: every materialized non-leaf node of height h has Data equal to        *)
(* H([l, r]), l and r its children's Data, or EmptyHash(h - 1) for a child   *)
(* that is not materialized; Root.Data = hashChildren(Left, Right, Depth).   *)
C9_NodeCommitments ==
    /\ NodesCommitted(smt.Root, smt.Depth)
    /\ smt.Depth >= 1 =>
          RootData = hashChildren(smt.Root[1].Left, smt.Root[1].Right, smt.Depth)

C9_Witness ==
    /\ op = "insert"
    /\ smt.Depth = MaxDepth
    /\ Cardinality(DOMAIN smt.Leaves) = 1
    /\ value # zeroLeaf

(* C10: Insert(key, value) leaves every node position off key's root-to-leaf *)
(* path as it was: nil stays nil, a materialized node keeps its Data, Left   *)
(* and Right (the subtree hanging off the path at each level is the same).   *)
C10_OffPathUntouched ==
    [][op' = "insert" =>
          \A n \in 0..(smt.Depth - 1) :
              SiblingAt(smt'.Root, key', n) = SiblingAt(smt.Root, key', n)]_vars

C10_Witness ==
    /\ op = "insert"
    /\ smt.Depth = MaxDepth
    /\ \E n \in 0..(smt.Depth - 1) : SiblingAt(smt.Root, key, n) # Nil
    /\ \E n \in 0..(smt.Depth - 1) : SiblingAt(smt.Root, key, n) = Nil

\* the commitment of the subtree of height h below the bit prefix, computed
\* from a key-to-value mapping alone: a recorded value or EmptyHash(0) at a
\* leaf position, H of the two halves above
RECURSIVE RootOfLeaves(_, _, _)
RootOfLeaves(leaves, prefix, h) ==
    IF h = 0
    THEN IF prefix \in DOMAIN leaves THEN leaves[prefix] ELSE EmptyHash(0)
    ELSE Hash2(RootOfLeaves(leaves, Append(prefix, "0"), h - 1),
               RootOfLeaves(leaves, Append(prefix, "1"), h - 1))

(* C12: history independence.  After any sequence of Insert calls with       *)
(* well-formed keys Root.Data is a function of the final Leaves mapping (and *)
(* Depth) alone, so two sequences ending with the same mapping, whatever the *)
(* order and the overwritten values, end with the same Root.Data.            *)
C12_RootDependsOnLeavesOnly ==
    RootData = RootOfLeaves(smt.Leaves, <<>>, smt.Depth)

C12_Witness ==
    /\ op = "insert"
    /\ smt.Depth = MaxDepth
    /\ Cardinality(DOMAIN smt.Leaves) = MaxKeys
    /\ \E k \in DOMAIN smt.Leaves : smt.Leaves[k] # smt.Leaves[key]

\* the root of the dense tree over the 2^h leaves H([start]), H([start + 1]),
\* ..., defined by halving
RECURSIVE DenseRoot(_, _)
DenseRoot(start, h) ==
    IF h = 0
    THEN Hash1(ToString(start))
    ELSE Hash2(DenseRoot(start, h - 1), DenseRoot(start + Pow2(h - 1), h - 1))

(* C11: in getMerkleRoots, under every interleaving of the 2^hLevel          *)
(* goroutines, slot branches[i] is written by goroutine i only, the function *)
(* returns only after every goroutine has finished, and on return each       *)
(* branches[i] is the root of the dense tree of depth lLevel that starts at  *)
(* (i + preImage) * 2^lLevel, whatever the schedule was.                     *)
C11_RootsIndependentOfSchedule ==
    mr.pc # "idle" =>
        /\ \A j \in DOMAIN mr.writers : mr.writers[j] \subseteq {j}
        /\ mr.pc = "returned" =>
              /\ \A g \in DOMAIN mr.workers : mr.workers[g].pc = "done"
              /\ DOMAIN mr.result = 0..(Pow2(mr.hLevel) - 1)
              /\ \A j \in DOMAIN mr.result :
                    mr.result[j] =
                        DenseRoot((j + mr.preImage) * Pow2(mr.lLevel), mr.lLevel)

C11_Witness ==
    /\ mr.pc = "returned"
    /\ mr.hLevel = MaxHLevel
    /\ mr.lLevel = MaxLLevel
    /\ mr.preImage = MaxPreImage
    /\ mr.bar = mr.n

====
